---- MODULE Spec2Model ----
(***************************************************************************)
(* create-kitojs: the project scaffolding CLI (bin/index.ts).              *)
(*                                                                         *)
(* One run of the tool is modelled as a state machine: the parsed          *)
(* arguments, the environment signal and the filesystem are the inputs;    *)
(* the suspension points of init/createProject (a prompt, a timer, the     *)
(* install child process) separate the actions.  The log holds what the    *)
(* run did and what it was answered, in order.                             *)
(*                                                                         *)
(* Texts are sequences of one-character strings, so that substring search, *)
(* trimming and pattern tests are computed and not looked up.              *)
(***************************************************************************)
EXTENDS Integers, Sequences, FiniteSets, TLC

VARIABLES
    rawArgs,      \* process.argv.slice(2), as [flags, template, positional]
    env,          \* process.env.npm_config_user_agent: <<>> (unset) or <<text>>
    registry,     \* the templates array
    fs,           \* the filesystem below the working directory: path -> directory
    fs0,          \* the filesystem when the process started
    templateDir,  \* the template source tree read by cpSync: <<>> or <<tree>>
    projectName,  \* createProject's projectName
    template,     \* the resolved template: <<>> (undefined) or <<t>>
    pc,           \* where the run is
    exitCode,     \* the process's exit code
    pkgManager,   \* createProject's pkgManager (line 342)
    installDeps,  \* the answer to the install prompt
    nextSteps,    \* the step lines printNextSteps printed
    log           \* everything observable the run did, in order

\* what a run is given and never changes
inputs == <<rawArgs, env, registry, fs0>>

vars == <<inputs, fs, templateDir, projectName, template, pc, exitCode, pkgManager,
          installDeps, nextSteps, log>>

---------------------------------------------------------------------------
(* Bounds of the model. *)

\* the user-agent signals are concatenations of at most MaxTokens tokens
MaxTokens == 2
\* the template manifests have at most MaxFields top-level members
MaxFields == 2
\* the name prompt rejects at most MaxReprompts inputs in a run
MaxReprompts == 1

---------------------------------------------------------------------------
(* Texts. *)

Undefined == "<undefined>"

RECURSIVE Flatten(_)
Flatten(ss) == IF ss = <<>> THEN <<>> ELSE Head(ss) \o Flatten(Tail(ss))

\* String.prototype.includes
includes(s, sub) ==
    \E i \in 0..(Len(s) - Len(sub)) : SubSeq(s, i + 1, i + Len(sub)) = sub

Chars ==
    [ pnpm |-> <<"p", "n", "p", "m">>,
      yarn |-> <<"y", "a", "r", "n">>,
      bun  |-> <<"b", "u", "n">>,
      deno |-> <<"d", "e", "n", "o">>,
      npm  |-> <<"n", "p", "m">> ]

PackageManagerKind == {"npm", "pnpm", "yarn", "bun", "deno"}

---------------------------------------------------------------------------
(* Package-manager detector. *)

\* the detector of the earlier revision: npm is tested before deno
detectPackageManagerNpmFirst(e) ==
    LET userAgent == IF e = <<>> THEN <<>> ELSE e[1]
    IN  IF includes(userAgent, Chars.pnpm) THEN "pnpm"
        ELSE IF includes(userAgent, Chars.yarn) THEN "yarn"
        ELSE IF includes(userAgent, Chars.bun) THEN "bun"
        ELSE IF includes(userAgent, Chars.npm) THEN "npm"
        ELSE IF includes(userAgent, Chars.deno) THEN "deno"
        ELSE "npm"

detectPackageManager(e) ==
    LET userAgent == IF e = <<>> THEN <<>> ELSE e[1]
    IN  IF includes(userAgent, Chars.pnpm) THEN "pnpm"
        ELSE IF includes(userAgent, Chars.yarn) THEN "yarn"
        ELSE IF includes(userAgent, Chars.bun) THEN "bun"
        ELSE IF includes(userAgent, Chars.deno) THEN "deno"
        ELSE IF includes(userAgent, Chars.npm) THEN "npm"
        ELSE "npm"

getPackageManagerCommands(manager) ==
    LET commands ==
            [ npm  |-> [install |-> "npm install", run |-> "npm run", exec |-> "npx"],
              pnpm |-> [install |-> "pnpm install", run |-> "pnpm", exec |-> "pnpm dlx"],
              yarn |-> [install |-> "yarn", run |-> "yarn", exec |-> "yarn dlx"],
              bun  |-> [install |-> "bun install", run |-> "bun", exec |-> "bunx"],
              deno |-> [install |-> "", run |-> "deno task", exec |-> "deno run"] ]
    IN  IF manager \in DOMAIN commands THEN commands[manager] ELSE commands.npm

---------------------------------------------------------------------------
(* Template registry. A step is a sequence of tokens; the placeholders are *)
(* tokens of their own.                                                    *)

templates ==
    << [ name  |-> "Node.js",
         value |-> "nodejs",
         steps |-> << <<"cd ", "<PROJECT_NAME>">>,
                      <<"<PACKAGE_MANAGER>", " install">>,
                      <<"<PACKAGE_MANAGER>", " run dev">> >> ],
       [ name  |-> "Bun",
         value |-> "bun",
         steps |-> << <<"cd ", "<PROJECT_NAME>">>,
                      <<"bun install">>,
                      <<"bun dev">> >> ],
       [ name  |-> "Deno",
         value |-> "deno",
         steps |-> << <<"cd ", "<PROJECT_NAME>">>,
                      <<"deno task dev">> >> ] >>

\* the registry of the revision with two runtimes
templatesTwo ==
    << [ name  |-> "Node.js",
         value |-> "nodejs",
         steps |-> << <<"cd ", "<PROJECT_NAME>">>, <<"npm install">>, <<"npm run dev">> >> ],
       [ name  |-> "Bun",
         value |-> "bun",
         steps |-> << <<"cd ", "<PROJECT_NAME>">>, <<"bun install">>, <<"bun dev">> >> ] >>

\* the registry of the first revision: Node.js only
templatesOne ==
    << [ name  |-> "Node.js",
         value |-> "nodejs",
         steps |-> << <<"cd ", "<PROJECT_NAME>">>, <<"npm install">>, <<"npm run dev">> >> ] >>

---------------------------------------------------------------------------
(* Template resolver: the part of selectTemplate that runs before the      *)
(* selection prompt.  outcome "sole": the only template; "found": the      *)
(* requested one; "unrecognized": diagnostic, undefined; "prompt": the     *)
(* selection prompt is shown.                                              *)

Min(S) == CHOOSE x \in S : \A y \in S : x <= y

\* JavaScript truthiness of an optional string
Truthy(v) == v /= Undefined /\ v /= ""

\* Array.prototype.find on t.value
find(reg, v) ==
    LET hits == {i \in DOMAIN reg : reg[i].value = v}
    IN  IF hits = {} THEN <<>> ELSE <<reg[Min(hits)]>>

\* the inline selection of the first build: no shortcut for a sole template
selectTemplateNoShortcut(reg, templateValue) ==
    IF Truthy(templateValue)
    THEN IF find(reg, templateValue) /= <<>>
         THEN [outcome |-> "found", template |-> find(reg, templateValue)]
         ELSE [outcome |-> "unrecognized", template |-> <<>>]
    ELSE [outcome |-> "prompt", template |-> <<>>]

\* a resolver that falls back to the first template on an unknown identifier
\* of a registry with several entries
selectTemplateFallback(reg, templateValue) ==
    IF Len(reg) = 1
    THEN [outcome |-> "sole", template |-> <<reg[1]>>]
    ELSE IF Truthy(templateValue)
    THEN IF find(reg, templateValue) /= <<>>
         THEN [outcome |-> "found", template |-> find(reg, templateValue)]
         ELSE [outcome |-> "found", template |-> <<reg[1]>>]
    ELSE [outcome |-> "prompt", template |-> <<>>]

selectTemplate(reg, templateValue) ==
    IF Len(reg) = 1
    THEN [outcome |-> "sole", template |-> <<reg[1]>>]
    ELSE IF Truthy(templateValue)
    THEN IF find(reg, templateValue) /= <<>>
         THEN [outcome |-> "found", template |-> find(reg, templateValue)]
         ELSE [outcome |-> "unrecognized", template |-> <<>>]
    ELSE [outcome |-> "prompt", template |-> <<>>]

---------------------------------------------------------------------------
(* Argument parsing: the mri schema. *)

\* a schema without the alias h -> help
argvNoAlias ==
    [ help       |-> "--help" \in rawArgs.flags,
      overwrite  |-> "--overwrite" \in rawArgs.flags,
      template   |-> rawArgs.template,
      positional |-> rawArgs.positional ]

argv ==
    [ help       |-> "--help" \in rawArgs.flags \/ "-h" \in rawArgs.flags,
      overwrite  |-> "--overwrite" \in rawArgs.flags,
      template   |-> rawArgs.template,
      positional |-> rawArgs.positional ]

---------------------------------------------------------------------------
(* Project names. *)

Whitespace == {" "}

RECURSIVE trimStart(_)
trimStart(s) ==
    IF s /= <<>> /\ Head(s) \in Whitespace THEN trimStart(Tail(s)) ELSE s

RECURSIVE trimEnd(_)
trimEnd(s) ==
    IF s /= <<>> /\ s[Len(s)] \in Whitespace
    THEN trimEnd(SubSeq(s, 1, Len(s) - 1))
    ELSE s

\* String.prototype.trim
trim(s) == trimEnd(trimStart(s))

\* the character class [a-z0-9-_]
NameChars ==
    { "a", "b", "c", "d", "e", "f", "g", "h", "i", "j", "k", "l", "m",
      "n", "o", "p", "q", "r", "s", "t", "u", "v", "w", "x", "y", "z",
      "0", "1", "2", "3", "4", "5", "6", "7", "8", "9", "-", "_" }

\* the name prompt's validate: "ok" for true, else the message
validate(name) ==
    IF trim(name) = <<>> THEN "Project name cannot be empty."
    ELSE IF ~(name /= <<>> /\ \A i \in DOMAIN name : name[i] \in NameChars)
    THEN "Project name can only contain lowercase letters, numbers, hyphens, and underscores."
    ELSE "ok"

---------------------------------------------------------------------------
(* File contents.  A file is the sequence of its top-level members         *)
(* <<key, value>>; a file that is not a JSON object is one raw member.     *)

RawKey == "#raw"

Raw(text) == << <<RawKey, text>> >>

IsJSON(content) == \A i \in DOMAIN content : content[i][1] /= RawKey

hasProperty(obj, k) == \E i \in DOMAIN obj : obj[i][1] = k

getProperty(obj, k) == obj[Min({i \in DOMAIN obj : obj[i][1] = k})][2]

\* obj[k] = v: an existing property keeps its place, a new one is appended
setProperty(obj, k, v) ==
    IF hasProperty(obj, k)
    THEN [i \in DOMAIN obj |-> IF obj[i][1] = k THEN <<k, v>> ELSE obj[i]]
    ELSE Append(obj, <<k, v>>)

RECURSIVE parseMembers(_, _)
parseMembers(text, obj) ==
    IF text = <<>> THEN obj
    ELSE parseMembers(Tail(text), setProperty(obj, Head(text)[1], Head(text)[2]))

\* JSON.parse of an object: a repeated key keeps its first place and its last value
JSONparse(text) == parseMembers(text, <<>>)

\* JSON.stringify(obj, null, 2): the members in property order
JSONstringify(obj) == obj

\* a rewrite that drops every field but the name
rewriteManifestNameOnly(text, name) ==
    JSONstringify(setProperty(<<>>, "name", name))

\* lines 315-319: parse, packageJson.name = projectName, stringify
rewriteManifest(text, name) ==
    JSONstringify(setProperty(JSONparse(text), "name", name))

generateReadme(t, manager) ==
    LET cmds == getPackageManagerCommands(manager)
    IN  Raw(<< "# Kito Project",
               IF t.value = "deno" THEN "" ELSE cmds.install,
               cmds.run,
               IF t.value /= "deno" THEN "package.json" ELSE "deno.json" >>)

---------------------------------------------------------------------------
(* Step printer. *)

\* String.prototype.replace with a string pattern: the first occurrence only
replace(step, token, text) ==
    LET hits == {i \in DOMAIN step : step[i] = token}
    IN  IF hits = {} THEN step
        ELSE SubSeq(step, 1, Min(hits) - 1) \o text
                 \o SubSeq(step, Min(hits) + 1, Len(step))

\* the lines printNextSteps prints
printNextSteps(name, t, depsInstalled, e) ==
    LET steps == IF depsInstalled
                 THEN SubSeq(t.steps, 2, Len(t.steps))
                 ELSE t.steps
    IN  [i \in DOMAIN steps |->
            replace(replace(steps[i], "<PROJECT_NAME>", name),
                    "<PACKAGE_MANAGER>", <<detectPackageManager(e)>>)]

---------------------------------------------------------------------------
(* Inputs of a run. *)

NameApp == <<"m", "y", "-", "a", "p", "p">>
NameUpper == <<"A", "p", "p">>
NameBlank == <<" ">>

\* what the user may pass as positional argument 0 or type at the name prompt
NameInputs == {<<>>, NameBlank, NameApp, NameUpper}

Flags == {"--help", "-h", "--overwrite"}

TemplateArgs == {Undefined, "", "nodejs", "bun", "deno", "nonexistent"}

Positionals == {<<>>} \cup {<<n>> : n \in NameInputs}

\* the signal of a run: unset, or what `pnpm create` sets
RunEnvs ==
    { <<>>,
      <<Chars.pnpm \o <<"/", "8", " ">> \o Chars.npm \o <<"/", "?">> >> }

\* a directory left by an earlier run
OldDir ==
    ("old.txt" :> Raw(<<"old">>))
        @@ ("package.json" :> << <<"name", <<"o", "l", "d">> >> >>)

Members ==
    { <<"name", <<"t">> >>, <<"version", <<"1">> >>, <<"type", <<"m">> >> }

\* the manifests a template may carry: field names of a package.json
Manifests == UNION {[1..n -> Members] : n \in 0..MaxFields}

\* the source file of every template (template/<value>/src/index.ts)
SourceFile(value) == "src/index.ts" :> Raw(<<"import { server } from \"kitojs\"", value>>)

\* the trees that may stand at <templates root>/<value>
TemplateTrees(value) ==
    IF value = "deno"
    THEN { SourceFile(value) @@ ("deno.json" :> << <<"tasks", <<"d">> >> >>) }
    ELSE { SourceFile(value) @@ ("package.json" :> m) : m \in Manifests }
             \cup { SourceFile(value),
                    SourceFile(value) @@ ("package.json" :> Raw(<<"not json">>)) }

---------------------------------------------------------------------------
(* The run. *)

E(ev, what, arg) == [ev |-> ev, what |-> what, arg |-> arg]

existsSync(path) == path \in DOMAIN fs

\* a directory with one file written
writeFile(dir, file, content) == [f \in DOMAIN dir \cup {file} |->
                                     IF f = file THEN content ELSE dir[f]]

\* the filesystem with directory path replaced
putDir(path, dir) == [q \in DOMAIN fs \cup {path} |-> IF q = path THEN dir ELSE fs[q]]

\* the filesystem without directory path
removeDir(path) == [q \in DOMAIN fs \ {path} |-> fs[q]]

restrict(dir, files) == [f \in files |-> dir[f]]

Init ==
    /\ rawArgs \in [flags : SUBSET Flags, template : TemplateArgs, positional : Positionals]
    /\ env \in RunEnvs
    /\ registry = templates
    /\ \E existing \in {{}, NameInputs \ {<<>>}} : fs = [q \in existing |-> OldDir]
    /\ fs0 = fs
    /\ templateDir = <<>>
    /\ projectName = <<>>
    /\ template = <<>>
    /\ pc = "init"
    /\ exitCode = 0
    /\ pkgManager = Undefined
    /\ installDeps = FALSE
    /\ nextSteps = <<>>
    /\ log = <<>>

\* process.exit(code)
Exit(code) == pc' = "exited" /\ exitCode' = code

\* the process is over: init returned, or process.exit was called
Terminated == pc \in {"done", "exited"}

\* lines 430-434
Help ==
    /\ pc = "init"
    /\ argv.help
    /\ log' = log \o <<E("print", "banner", ""), E("print", "help", "")>>
    /\ pc' = "done"
    /\ UNCHANGED <<inputs, pkgManager, fs, templateDir, projectName, template,
                   exitCode, installDeps, nextSteps>>

\* lines 436-440 and 465-466
Start ==
    /\ pc = "init"
    /\ ~argv.help
    /\ IF argv.positional = <<>> \/ argv.positional[1] = <<>>
       THEN /\ log' = log \o <<E("print", "banner", ""), E("prompt", "projectName", "")>>
            /\ pc' = "promptName"
            /\ UNCHANGED projectName
       ELSE /\ log' = Append(log, E("print", "banner", ""))
            /\ projectName' = argv.positional[1]
            /\ pc' = "createProject"
    /\ UNCHANGED <<inputs, pkgManager, fs, templateDir, template, exitCode,
                   installDeps, nextSteps>>

Rejections == Len(SelectSeq(log, LAMBDA e : e.ev = "print" /\ e.what = "invalid-name"))

\* lines 447-452: validate rejects the input and the prompt stays
RejectName ==
    /\ pc = "promptName"
    /\ Rejections < MaxReprompts
    /\ \E input \in NameInputs :
        /\ validate(input) /= "ok"
        /\ log' = log \o <<E("answer", "projectName", "rejected"),
                            E("print", "invalid-name", validate(input))>>
    /\ UNCHANGED <<inputs, pkgManager, fs, templateDir, projectName, template, pc,
                   exitCode, installDeps, nextSteps>>

\* lines 462-466
SubmitName ==
    /\ pc = "promptName"
    /\ \E input \in NameInputs :
        /\ validate(input) = "ok"
        /\ projectName' = input
        /\ pc' = IF input /= <<>> THEN "createProject" ELSE "done"
    /\ log' = Append(log, E("answer", "projectName", "submitted"))
    /\ UNCHANGED <<inputs, pkgManager, fs, templateDir, template, exitCode,
                   installDeps, nextSteps>>

\* lines 455-458
CancelName ==
    /\ pc = "promptName"
    /\ log' = log \o <<E("answer", "projectName", "cancel"), E("print", "cancelled", "")>>
    /\ Exit(0)
    /\ UNCHANGED <<inputs, pkgManager, fs, templateDir, projectName, template,
                   installDeps, nextSteps>>

\* lines 256-271
CheckExists ==
    /\ pc = "createProject"
    /\ IF existsSync(projectName) /\ ~argv.overwrite
       THEN /\ log' = Append(log, E("prompt", "overwrite", ""))
            /\ pc' = "promptOverwrite"
       ELSE /\ pc' = "selectTemplate"
            /\ UNCHANGED log
    /\ UNCHANGED <<inputs, pkgManager, fs, templateDir, projectName, template,
                   exitCode, installDeps, nextSteps>>

\* a yes that removes the destination at once, before the template is resolved
ConfirmOverwriteResetsAtOnce ==
    /\ pc = "promptOverwrite"
    /\ log' = log \o <<E("answer", "overwrite", "yes"), E("fs", "rmSync", "")>>
    /\ fs' = removeDir(projectName)
    /\ pc' = "selectTemplate"
    /\ UNCHANGED <<inputs, pkgManager, templateDir, projectName, template,
                   exitCode, installDeps, nextSteps>>

\* the confirmation answered yes
ConfirmOverwrite ==
    /\ pc = "promptOverwrite"
    /\ log' = Append(log, E("answer", "overwrite", "yes"))
    /\ pc' = "selectTemplate"
    /\ UNCHANGED <<inputs, pkgManager, fs, templateDir, projectName, template,
                   exitCode, installDeps, nextSteps>>

\* a decline without the return: the run goes on to the template
DeclineOverwriteFallsThrough ==
    /\ pc = "promptOverwrite"
    /\ log' = log \o <<E("answer", "overwrite", "no"),
                        E("print", "creation-cancelled", "")>>
    /\ pc' = "selectTemplate"
    /\ UNCHANGED <<inputs, pkgManager, fs, templateDir, projectName, template,
                   exitCode, installDeps, nextSteps>>

\* lines 273-276
DeclineOverwrite ==
    /\ pc = "promptOverwrite"
    /\ log' = log \o <<E("answer", "overwrite", "no"),
                        E("print", "creation-cancelled", "")>>
    /\ pc' = "done"
    /\ UNCHANGED <<inputs, pkgManager, fs, templateDir, projectName, template,
                   exitCode, installDeps, nextSteps>>

\* an onCancel without process.exit: the run goes on as after a yes
CancelOverwriteProceeds ==
    /\ pc = "promptOverwrite"
    /\ log' = log \o <<E("answer", "overwrite", "cancel"),
                        E("print", "creation-cancelled", "")>>
    /\ pc' = "selectTemplate"
    /\ UNCHANGED <<inputs, pkgManager, fs, templateDir, projectName, template,
                   exitCode, installDeps, nextSteps>>

\* lines 266-269
CancelOverwrite ==
    /\ pc = "promptOverwrite"
    /\ log' = log \o <<E("answer", "overwrite", "cancel"),
                        E("print", "creation-cancelled", "")>>
    /\ Exit(0)
    /\ UNCHANGED <<inputs, pkgManager, fs, templateDir, projectName, template,
                   installDeps, nextSteps>>

\* lines 280-289 with selectTemplate up to its prompt
SelectTemplate ==
    /\ pc = "selectTemplate"
    /\ LET r == selectTemplate(registry, argv.template)
       IN  /\ template' = r.template
           /\ CASE r.outcome = "sole" ->
                    /\ log' = Append(log, E("spinner", "start", ""))
                    /\ pc' = "reset"
                [] r.outcome = "found" ->
                    /\ log' = log \o <<E("print", "using-template", r.template[1].value),
                                       E("spinner", "start", "")>>
                    /\ pc' = "reset"
                [] r.outcome = "unrecognized" ->
                    /\ log' = Append(log, E("error", "unrecognized-template", argv.template))
                    /\ pc' = "done"
                [] r.outcome = "prompt" ->
                    /\ log' = Append(log, E("prompt", "selectedTemplate", ""))
                    /\ pc' = "promptTemplate"
    /\ UNCHANGED <<inputs, pkgManager, fs, templateDir, projectName, exitCode,
                   installDeps, nextSteps>>

\* line 252 and lines 282-289
ChooseTemplate ==
    /\ pc = "promptTemplate"
    /\ \E i \in DOMAIN registry :
        /\ template' = find(registry, registry[i].value)
        /\ log' = log \o <<E("answer", "selectedTemplate", registry[i].value),
                            E("spinner", "start", "")>>
        /\ pc' = "reset"
    /\ UNCHANGED <<inputs, pkgManager, fs, templateDir, projectName, exitCode,
                   installDeps, nextSteps>>

\* lines 245-248
CancelTemplate ==
    /\ pc = "promptTemplate"
    /\ log' = log \o <<E("answer", "selectedTemplate", "cancel"),
                        E("print", "cancelled", "")>>
    /\ Exit(0)
    /\ UNCHANGED <<inputs, pkgManager, fs, templateDir, projectName, template,
                   installDeps, nextSteps>>

\* no catch: the error reaches init().catch, which prints it and sets no exit code
FailUncaught(events) ==
    /\ log' = log \o events \o <<E("error", "error", "")>>
    /\ pc' = "done"
    /\ exitCode' = exitCode

\* lines 336-340: the catch of the materialization
Fail(events) ==
    /\ log' = log \o events \o <<E("spinner", "fail", ""), E("error", "error", "")>>
    /\ Exit(1)

\* lines 292-294: existsSync, rmSync(projectName, {recursive, force})
reset(path) == IF existsSync(path) THEN removeDir(path) ELSE fs

\* lines 291-296; rmSync may throw and leave any part of the tree behind
Reset ==
    /\ pc = "reset"
    /\ \/ /\ fs' = reset(projectName)
          /\ log' = IF existsSync(projectName)
                    THEN Append(log, E("fs", "rmSync", ""))
                    ELSE log
          /\ pc' = "populate"
          /\ UNCHANGED exitCode
       \/ /\ existsSync(projectName)
          /\ \E kept \in SUBSET DOMAIN fs[projectName] :
                fs' = putDir(projectName, restrict(fs[projectName], kept))
          /\ Fail(<<E("fs", "rmSync", "throws")>>)
    /\ UNCHANGED <<inputs, pkgManager, templateDir, projectName, template,
                   installDeps, nextSteps>>

\* a copy without {recursive: true}: the files below src/ are left out
populateShallow(path, tree) ==
    putDir(path, restrict(tree, DOMAIN tree \ {"src/index.ts"}))

\* lines 299-307: mkdirSync(projectName), cpSync(templateDir, projectName)
populate(path, tree) == putDir(path, tree)

\* lines 298-309; mkdirSync throws on an existing path, cpSync on a missing source
Populate ==
    /\ pc = "populate"
    /\ \/ /\ ~existsSync(projectName)
          /\ \E tree \in TemplateTrees(template[1].value) :
                /\ templateDir' = <<tree>>
                /\ fs' = populate(projectName, tree)
          /\ log' = log \o <<E("fs", "mkdirSync", ""), E("fs", "cpSync", template[1].value)>>
          /\ pc' = "manifest"
          /\ UNCHANGED exitCode
       \/ /\ Fail(<<E("fs", "mkdirSync", "throws")>>)
          /\ UNCHANGED <<fs, templateDir>>
       \/ /\ ~existsSync(projectName)
          /\ \/ /\ fs' = putDir(projectName, <<>>)
                /\ UNCHANGED templateDir
             \/ \E tree \in TemplateTrees(template[1].value) :
                \E copied \in SUBSET DOMAIN tree :
                    /\ templateDir' = <<tree>>
                    /\ fs' = putDir(projectName, restrict(tree, copied))
          /\ Fail(<<E("fs", "mkdirSync", ""), E("fs", "cpSync", "throws")>>)
    /\ UNCHANGED <<inputs, pkgManager, projectName, template, installDeps, nextSteps>>

\* lines 311-322; readFileSync throws without a manifest, JSON.parse on a raw file
Manifest ==
    /\ pc = "manifest"
    /\ LET dir == fs[projectName]
       IN  IF template[1].value /= "deno"
           THEN IF "package.json" \notin DOMAIN dir
                THEN /\ Fail(<<E("fs", "readFileSync", "throws")>>)
                     /\ UNCHANGED fs
                ELSE IF ~IsJSON(dir["package.json"])
                THEN /\ Fail(<<E("fs", "readFileSync", "package.json"),
                               E("json", "parse", "throws")>>)
                     /\ UNCHANGED fs
                ELSE \/ /\ fs' = putDir(projectName,
                                     writeFile(dir, "package.json",
                                         rewriteManifest(dir["package.json"], projectName)))
                        /\ log' = log \o <<E("fs", "readFileSync", "package.json"),
                                           E("fs", "writeFileSync", "package.json")>>
                        /\ pc' = "readme"
                        /\ UNCHANGED exitCode
                     \/ /\ Fail(<<E("fs", "readFileSync", "package.json"),
                                  E("fs", "writeFileSync", "throws")>>)
                        /\ UNCHANGED fs
           ELSE /\ pc' = "readme"
                /\ UNCHANGED <<fs, log, exitCode>>
    /\ UNCHANGED <<inputs, pkgManager, templateDir, projectName, template,
                   installDeps, nextSteps>>

\* lines 324-331
Readme ==
    /\ pc = "readme"
    /\ \/ /\ fs' = putDir(projectName,
                       writeFile(fs[projectName], "README.md",
                           generateReadme(template[1], detectPackageManager(env))))
          /\ log' = Append(log, E("fs", "writeFileSync", "README.md"))
          /\ pc' = "created"
          /\ UNCHANGED exitCode
       \/ /\ Fail(<<E("fs", "writeFileSync", "throws")>>)
          /\ UNCHANGED fs
    /\ UNCHANGED <<inputs, pkgManager, templateDir, projectName, template,
                   installDeps, nextSteps>>

\* lines 333-361: success, the detected package manager, the install prompt
Created ==
    /\ pc = "created"
    /\ pkgManager' = detectPackageManager(env)
    /\ log' = log \o <<E("spinner", "succeed", ""),
                       E("print", "detected", pkgManager'),
                       E("prompt", "installDeps", "")>>
    /\ pc' = "promptInstall"
    /\ UNCHANGED <<inputs, fs, templateDir, projectName, template, exitCode,
                   installDeps, nextSteps>>

\* lines 370-373: what an accepted install does for a template
acceptInstall(value) == IF value = "deno" THEN "info" ELSE "spawn"

\* lines 363-376: the prompt answered yes
AcceptInstall ==
    /\ pc = "promptInstall"
    /\ installDeps' = TRUE
    /\ IF acceptInstall(template[1].value) = "info"
       THEN /\ nextSteps' = printNextSteps(projectName, template[1], TRUE, env)
            /\ log' = log \o <<E("answer", "installDeps", "yes"),
                               E("spinner", "start", ""), E("spinner", "info", "deno"),
                               E("print", "next-steps", "")>>
            /\ pc' = "done"
       ELSE /\ log' = log \o <<E("answer", "installDeps", "yes"),
                               E("spinner", "start", ""),
                               E("spawn", "install", pkgManager)>>
            /\ pc' = "install"
            /\ UNCHANGED nextSteps
    /\ UNCHANGED <<inputs, pkgManager, fs, templateDir, projectName, template,
                   exitCode>>

\* lines 363 and 392: the prompt answered no
DeclineInstall ==
    /\ pc = "promptInstall"
    /\ installDeps' = FALSE
    /\ nextSteps' = printNextSteps(projectName, template[1], FALSE, env)
    /\ log' = log \o <<E("answer", "installDeps", "no"), E("print", "next-steps", "")>>
    /\ pc' = "done"
    /\ UNCHANGED <<inputs, pkgManager, fs, templateDir, projectName, template,
                   exitCode>>

\* lines 356-359
CancelInstall ==
    /\ pc = "promptInstall"
    /\ nextSteps' = printNextSteps(projectName, template[1], FALSE, env)
    /\ log' = log \o <<E("answer", "installDeps", "cancel"), E("print", "next-steps", "")>>
    /\ Exit(0)
    /\ UNCHANGED <<inputs, pkgManager, fs, templateDir, projectName, template,
                   installDeps>>

\* what the package manager wrote into the project
Installed(dir) ==
    writeFile(dir, "node_modules", Raw(<<"installed by", pkgManager>>))

\* lines 373-380 and 392: the child process exits with 0
InstallSucceeds ==
    /\ pc = "install"
    /\ fs' = putDir(projectName, Installed(fs[projectName]))
    /\ nextSteps' = printNextSteps(projectName, template[1], installDeps, env)
    /\ log' = log \o <<E("child", "exit", "success"),
                       E("spinner", "succeed", "install"), E("print", "next-steps", "")>>
    /\ pc' = "done"
    /\ UNCHANGED <<inputs, pkgManager, templateDir, projectName, template,
                   exitCode, installDeps>>

\* lines 382-389: the catch of the install leaves the exit code alone
installFailureExit == exitCode

\* a catch that removes the project
installFailureFsRollback(written) == removeDir(projectName)

\* lines 382-389: the catch of the install touches no file
installFailureFs(written) == written

\* lines 382-392: execSync throws (spawn failure or non-zero exit)
InstallFails ==
    /\ pc = "install"
    /\ \E partial \in BOOLEAN :
        fs' = installFailureFs(IF partial
                               THEN putDir(projectName, Installed(fs[projectName]))
                               ELSE fs)
    /\ nextSteps' = printNextSteps(projectName, template[1], installDeps, env)
    /\ log' = log \o <<E("child", "exit", "failure"),
                       E("spinner", "fail", "install"),
                       E("print", "manual-install", pkgManager),
                       E("print", "next-steps", "")>>
    /\ pc' = "done"
    /\ exitCode' = installFailureExit
    /\ UNCHANGED <<inputs, pkgManager, templateDir, projectName, template,
                   installDeps>>

Next ==
    \/ Help
    \/ Start
    \/ RejectName
    \/ SubmitName
    \/ CancelName
    \/ CheckExists
    \/ ConfirmOverwrite
    \/ DeclineOverwrite
    \/ CancelOverwrite
    \/ SelectTemplate
    \/ ChooseTemplate
    \/ CancelTemplate
    \/ Reset
    \/ Populate
    \/ Manifest
    \/ Readme
    \/ Created
    \/ AcceptInstall
    \/ DeclineInstall
    \/ CancelInstall
    \/ InstallSucceeds
    \/ InstallFails

Spec == Init /\ [][Next]_vars

---------------------------------------------------------------------------
(* The resolver alone: selectTemplate over every registry and identifier. *)

Registries ==
    { templates, templatesTwo, templatesOne,
      <<templates[1]>>, <<templates[2]>>, <<templates[3]>>,
      <<templates[1], templates[2]>>, <<templates[1], templates[3]>>,
      <<templates[2], templates[3]>> }

ResolverArgs == TemplateArgs \cup {"Node.js", "NODEJS"}

\* createProject at line 280, for a destination that does not exist
InitResolver ==
    /\ rawArgs \in [flags : {{}}, template : ResolverArgs, positional : {<<NameApp>>}]
    /\ env = <<>>
    /\ registry \in Registries
    /\ fs = <<>>
    /\ fs0 = fs
    /\ templateDir = <<>>
    /\ projectName = NameApp
    /\ template = <<>>
    /\ pc = "selectTemplate"
    /\ exitCode = 0
    /\ pkgManager = Undefined
    /\ installDeps = FALSE
    /\ nextSteps = <<>>
    /\ log = <<E("print", "banner", "")>>

NextResolver ==
    \/ SelectTemplate
    \/ ChooseTemplate
    \/ CancelTemplate

SpecResolver == InitResolver /\ [][NextResolver]_vars

---------------------------------------------------------------------------
(* The detector alone: detectPackageManager over the user-agent signals. *)

Tokens ==
    { Chars.pnpm, Chars.yarn, Chars.bun, Chars.deno, Chars.npm,
      <<"p">>, <<"n", "o">>, <<"n", "o", "d", "e">>, <<"/", "1", " ">> }

\* unset, or a concatenation of at most MaxTokens tokens
Signals ==
    {<<>>} \cup {<<Flatten(ts)>> : ts \in UNION {[1..n -> Tokens] : n \in 0..MaxTokens}}

InitDetect ==
    /\ rawArgs \in [flags : {{}}, template : {Undefined}, positional : {<<NameApp>>}]
    /\ env \in Signals
    /\ registry = templates
    /\ fs = <<>>
    /\ fs0 = fs
    /\ templateDir = <<>>
    /\ projectName = NameApp
    /\ template = <<>>
    /\ pc = "detect"
    /\ exitCode = 0
    /\ pkgManager = Undefined
    /\ installDeps = FALSE
    /\ nextSteps = <<>>
    /\ log = <<>>

\* const pkgManager = detectPackageManager()
Detect ==
    /\ pc = "detect"
    /\ pkgManager' = detectPackageManager(env)
    /\ pc' = "detected"
    /\ UNCHANGED <<inputs, fs, templateDir, projectName, template, exitCode,
                   installDeps, nextSteps, log>>

NextDetect == Detect

SpecDetect == InitDetect /\ [][NextDetect]_vars

---------------------------------------------------------------------------
(* Properties. *)

Range(seq) == {seq[i] : i \in DOMAIN seq}

Logged(ev, what) == \E e \in Range(log) : e.ev = ev /\ e.what = what

\* the materialization succeeded: spinner.succeed at line 333
Materialized == E("spinner", "succeed", "") \in Range(log)

\* the events that change the filesystem or start a process
Effects == {"fs", "spawn", "child"}

HelpSet == "--help" \in rawArgs.flags \/ "-h" \in rawArgs.flags

\* C1: once the overwrite confirmation of an existing destination is answered
\* no, the run is over with exit code 0, the filesystem is what it was when
\* the process started, nothing was deleted, created, copied, written or
\* spawned, and no prompt follows the confirmation.
C1_DeclineLeavesUntouched ==
    E("answer", "overwrite", "no") \in Range(log) =>
        /\ pc = "done"
        /\ exitCode = 0
        /\ fs = fs0
        /\ template = <<>>
        /\ \A e \in Range(log) : e.ev \notin Effects
        /\ \A i, j \in DOMAIN log :
              (log[i] = E("answer", "overwrite", "no") /\ log[j].ev = "prompt") => j < i

C1_Witness ==
    /\ E("answer", "overwrite", "no") \in Range(log)
    /\ projectName \in DOMAIN fs0
    /\ ~argv.overwrite
    /\ pc = "done"

\* the requested identifier is non-empty and no entry of a registry with
\* more than one entry has it
Unrecognized ==
    /\ Len(registry) > 1
    /\ rawArgs.template /= Undefined
    /\ rawArgs.template /= ""
    /\ \A i \in DOMAIN registry : registry[i].value /= rawArgs.template

\* the run ended at a prompt before the resolver was reached
StoppedAtPrompt ==
    \E e \in Range(log) : e.ev = "answer" /\ e.arg \in {"cancel", "no"}

Diagnosed ==
    /\ log /= <<>>
    /\ log[Len(log)] = E("error", "unrecognized-template", rawArgs.template)
    /\ pc = "done"
    /\ exitCode = 0

\* C2: with an unrecognized template identifier the run never gets past the
\* resolver: no template is resolved, the filesystem stays what it was (an
\* existing destination included, whether or not its overwrite was authorized),
\* there is no selection or install prompt and no child process, and a run that
\* reached the resolver ended right after the diagnostic naming the value.
C2_UnrecognizedTemplate ==
    Unrecognized =>
        /\ template = <<>>
        /\ fs = fs0
        /\ \A e \in Range(log) :
              /\ e.ev \notin Effects
              /\ ~(e.ev = "prompt" /\ e.what \in {"selectedTemplate", "installDeps"})
        /\ pc \in {"init", "promptName", "createProject", "promptOverwrite",
                   "selectTemplate", "done", "exited"}
        /\ (Terminated /\ ~HelpSet /\ ~StoppedAtPrompt) => Diagnosed

C2_Witness ==
    /\ Unrecognized
    /\ Diagnosed
    /\ projectName \in DOMAIN fs
    /\ E("answer", "overwrite", "yes") \in Range(log)

\* C3: with a registry of exactly one template the resolver returns that
\* template whatever identifier was requested, shows no prompt and prints no
\* diagnostic.
C3_SoleTemplate ==
    (Len(registry) = 1 /\ pc /= "selectTemplate") =>
        /\ template = <<registry[1]>>
        /\ pc = "reset"
        /\ \A e \in Range(log) : e.ev \notin {"prompt", "error", "answer"}

C3_Witness ==
    /\ Len(registry) = 1
    /\ pc = "reset"
    /\ rawArgs.template = "nonexistent"
    /\ template = <<registry[1]>>

Priority == <<"pnpm", "yarn", "bun", "deno", "npm">>

\* the names that occur in the signal, as places in the priority order
Occurring ==
    LET signal == IF env = <<>> THEN <<>> ELSE env[1]
    IN  {i \in DOMAIN Priority : includes(signal, Chars[Priority[i]])}

\* C4: the detected package manager is one of the five kinds: the first name in
\* the order pnpm, yarn, bun, deno, npm that occurs in the signal, and npm when
\* the signal is absent or holds none of them.
C4_DetectPriority ==
    pc = "detected" =>
        /\ pkgManager \in PackageManagerKind
        /\ pkgManager = IF Occurring = {} THEN "npm" ELSE Priority[Min(Occurring)]

C4_Witness ==
    /\ pc = "detected"
    /\ Occurring = {4, 5}
    /\ pkgManager = "deno"

\* the members of an object other than its name
OtherFields(obj) == SelectSeq(obj, LAMBDA m : m[1] /= "name")

\* C5: after a successful materialization of a template with a manifest, the
\* written manifest's name is the project name, and its other fields are the
\* fields of the template's manifest, with the same values in the same order.
C5_ManifestName ==
    (Materialized /\ template[1].value /= "deno") =>
        LET written == fs[projectName]["package.json"]
            source == JSONparse(templateDir[1]["package.json"])
        IN  /\ hasProperty(written, "name")
            /\ getProperty(written, "name") = projectName
            /\ Cardinality({i \in DOMAIN written : written[i][1] = "name"}) = 1
            /\ OtherFields(written) = OtherFields(source)

C5_Witness ==
    /\ Materialized
    /\ template[1].value = "nodejs"
    /\ templateDir[1]["package.json"]
           = << <<"version", <<"1">> >>, <<"name", <<"t">> >> >>
    /\ fs[projectName]["package.json"]
           = << <<"version", <<"1">> >>, <<"name", NameApp>> >>

\* the place of the first event (ev, what) in the log, 0 when there is none
Place(ev, what) ==
    LET hits == {i \in DOMAIN log : log[i].ev = ev /\ log[i].what = what}
    IN  IF hits = {} THEN 0 ELSE Min(hits)

\* C6: after a successful materialization the destination holds every file of
\* the tree at <templates root>/<template identifier> (the manifest and the
\* README aside, with the template's contents), nothing that was in the
\* destination before the run is left, and an existing destination was removed
\* before the directory was created and the tree copied.
C6_FreshTree ==
    Materialized =>
        LET dir == fs[projectName]
            tree == templateDir[1]
        IN  /\ projectName \in DOMAIN fs
            /\ tree \in TemplateTrees(template[1].value)
            /\ DOMAIN tree \subseteq DOMAIN dir
            /\ \A f \in DOMAIN tree \ {"package.json", "README.md"} : dir[f] = tree[f]
            /\ DOMAIN dir \subseteq DOMAIN tree \cup {"README.md", "node_modules"}
            /\ projectName \in DOMAIN fs0 =>
                  /\ \A f \in DOMAIN dir \cap DOMAIN fs0[projectName] :
                        dir[f] /= fs0[projectName][f]
                  /\ 0 < Place("fs", "rmSync")
                  /\ Place("fs", "rmSync") < Place("fs", "mkdirSync")
            /\ 0 < Place("fs", "mkdirSync")
            /\ Place("fs", "mkdirSync") < Place("fs", "cpSync")
            /\ log[Place("fs", "cpSync")].arg = template[1].value

C6_Witness ==
    /\ Materialized
    /\ projectName \in DOMAIN fs0
    /\ "old.txt" \in DOMAIN fs0[projectName]
    /\ "old.txt" \notin DOMAIN fs[projectName]
    /\ "src/index.ts" \in DOMAIN fs[projectName]

\* C7: with --help or -h the run does nothing but print the banner and the
\* usage text and end with exit code 0: no prompt, no project name, no
\* template, no change of the filesystem, no child process.
C7_HelpOnly ==
    HelpSet =>
        /\ pc \in {"init", "done"}
        /\ exitCode = 0
        /\ fs = fs0
        /\ projectName = <<>>
        /\ template = <<>>
        /\ log \in {<<>>, <<E("print", "banner", ""), E("print", "help", "")>>}
        /\ pc = "done" => log /= <<>>

C7_Witness ==
    /\ pc = "done"
    /\ rawArgs.flags = {"-h", "--overwrite"}
    /\ rawArgs.template = "nodejs"
    /\ rawArgs.positional = <<NameApp>>
    /\ NameApp \in DOMAIN fs
    /\ log = <<E("print", "banner", ""), E("print", "help", "")>>

Throws == {i \in DOMAIN log : log[i].arg = "throws"}

\* C8: an exception in the materialization ends the run at once: the failure
\* and the error are printed, the exit code is 1, and nothing follows, neither
\* another attempt nor the install prompt, a child process or the next steps.
C8_MaterializationFailure ==
    Throws /= {} =>
        /\ pc = "exited"
        /\ exitCode = 1
        /\ Throws = {Len(log) - 2}
        /\ log[Len(log) - 1] = E("spinner", "fail", "")
        /\ log[Len(log)] = E("error", "error", "")
        /\ nextSteps = <<>>
        /\ ~Materialized
        /\ \A e \in Range(log) :
              /\ e.ev \notin {"spawn", "child"}
              /\ ~(e.ev = "prompt" /\ e.what = "installDeps")
              /\ ~(e.ev = "print" /\ e.what = "next-steps")

C8_Witness ==
    /\ Throws /= {}
    /\ log[Len(log) - 2] = E("fs", "cpSync", "throws")
    /\ projectName \in DOMAIN fs
    /\ exitCode = 1

\* the install child process fails in this step
InstallFailure ==
    /\ pc = "install"
    /\ Len(log') > Len(log)
    /\ log'[Len(log) + 1] = E("child", "exit", "failure")

\* C9: when the install child process fails, the failure and the manual
\* installation command are printed, then the next steps; every file of the
\* project directory stays as it was, and the run ends with exit code 0.
C9_InstallFailureNonFatal ==
    [][InstallFailure =>
          /\ pc' = "done"
          /\ exitCode' = 0
          /\ projectName \in DOMAIN fs'
          /\ \A f \in DOMAIN fs[projectName] :
                /\ f \in DOMAIN fs'[projectName]
                /\ fs'[projectName][f] = fs[projectName][f]
          /\ SubSeq(log', Len(log) + 2, Len(log'))
                = <<E("spinner", "fail", "install"),
                    E("print", "manual-install", pkgManager),
                    E("print", "next-steps", "")>>
          /\ nextSteps' /= <<>>]_vars

C9_Witness ==
    /\ E("child", "exit", "failure") \in Range(log)
    /\ pc = "done"
    /\ exitCode = 0
    /\ "README.md" \in DOMAIN fs[projectName]
    /\ Logged("print", "next-steps")

\* C10: for the deno template the installer asks no install confirmation,
\* spawns no child process, and no manifest is read or written.
C10_DenoNoInstallPrompt ==
    (template /= <<>> /\ template[1].value = "deno") =>
        \A e \in Range(log) :
            /\ ~(e.ev = "prompt" /\ e.what = "installDeps")
            /\ e.ev \notin {"spawn", "child"}
            /\ ~(e.ev = "fs" /\ e.arg = "package.json")

\* createProject has been called with projectName (line 467)
Handed == projectName /= <<>> /\ pc \notin {"init", "promptName"}

\* C11: the name handed to createProject is never empty, whitespace-only or
\* outside the pattern [a-z0-9-_]+, whether it came from the positional
\* argument or from the prompt.
C11_HandedNameValid ==
    Handed =>
        /\ trim(projectName) /= <<>>
        /\ \A i \in DOMAIN projectName : projectName[i] \in NameChars
        /\ validate(projectName) = "ok"

\* the prompts of a run, by the name of the answer they ask for
Prompts == {"projectName", "overwrite", "selectedTemplate", "installDeps"}

\* the prompts asked before anything is written
EarlyPrompts == {"projectName", "overwrite", "selectedTemplate"}

\* C12: once any of the four prompts is cancelled the process has exited with
\* code 0 and nothing follows the cancellation but prints: no filesystem call,
\* no prompt, no answer, no child process. A cancellation of the project name,
\* overwrite or template prompt leaves the filesystem as it was before the
\* run; a cancellation of the install prompt leaves the created project in
\* place.
C12_CancelStopsRun ==
    \A i \in DOMAIN log :
        (log[i].ev = "answer" /\ log[i].what \in Prompts /\ log[i].arg = "cancel") =>
            /\ pc = "exited"
            /\ exitCode = 0
            /\ \A j \in DOMAIN log :
                   j > i => log[j].ev \notin Effects \cup {"prompt", "answer"}
            /\ log[i].what \in EarlyPrompts =>
                   /\ fs = fs0
                   /\ \A j \in DOMAIN log : log[j].ev \notin Effects
            /\ log[i].what = "installDeps" =>
                   /\ Materialized
                   /\ projectName \in DOMAIN fs
                   /\ "README.md" \in DOMAIN fs[projectName]

\* the install prompt was cancelled over a project written in this run
C12_Witness ==
    /\ E("answer", "installDeps", "cancel") \in Range(log)
    /\ E("answer", "overwrite", "yes") \in Range(log)
    /\ fs /= fs0
    /\ pc = "exited"

\* the stage an event belongs to, in the order of the code: 1 the existence
\* check with its overwrite confirmation, 2 the template resolver, 3 the
\* writes of the materializer, 4 the dependency installer, 5 the step-printer;
\* 0 for the events of no stage (banner, project name, spinner start)
Stage(e) ==
    IF e.what = "overwrite" \/ e.what = "creation-cancelled" THEN 1
    ELSE IF e.what \in {"selectedTemplate", "using-template", "unrecognized-template"} THEN 2
    ELSE IF \/ e.ev \in {"fs", "json"}
            \/ (e.ev = "spinner" /\ e.arg = "" /\ e.what /= "start") THEN 3
    ELSE IF \/ e.what \in {"installDeps", "detected", "manual-install"}
            \/ e.ev \in {"spawn", "child"}
            \/ (e.ev = "spinner" /\ e.arg \in {"install", "deno"}) THEN 4
    ELSE IF e.what = "next-steps" THEN 5
    ELSE 0

\* the stages with the template resolver put before the existence check
StageResolverFirst(e) ==
    IF Stage(e) = 1 THEN 2 ELSE IF Stage(e) = 2 THEN 1 ELSE Stage(e)

\* no event of a stage is logged after an event of a later stage
InOrder(stage(_)) ==
    LET staged == SelectSeq(log, LAMBDA e : stage(e) > 0)
    IN  \A k \in 1..(Len(staged) - 1) : stage(staged[k]) <= stage(staged[k + 1])

Staged(n) == \E e \in Range(log) : Stage(e) = n

\* the part of the order that does not depend on where the existence check is:
\* the materializer writes only with a resolved template, the installer starts
\* only after spinner.succeed of a materialization in which nothing threw, the
\* child follows a yes, and the next steps follow the install answer and end
\* the run
LaterStages ==
    /\ Staged(3) => template /= <<>>
    /\ Staged(4) =>
        /\ Materialized
        /\ \A e \in Range(log) : e.arg /= "throws"
        /\ E("fs", "writeFileSync", "README.md") \in Range(log)
    /\ (\E e \in Range(log) : e.ev \in {"spawn", "child"}) =>
        E("answer", "installDeps", "yes") \in Range(log)
    /\ Staged(5) =>
        /\ Logged("answer", "installDeps")
        /\ log[Len(log)].what = "next-steps"
        /\ Terminated

\* C13: in a run that is not the help path the stages occur in the order
\* template resolver, project materializer (its existence check and overwrite
\* confirmation included), dependency installer, step-printer: the template is
\* resolved before the existence check and the overwrite confirmation.
C13_ResolverBeforeExistenceCheck ==
    /\ InOrder(StageResolverFirst)
    /\ pc = "promptOverwrite" => template /= <<>>
    /\ LaterStages

\* C13 (as the code has it): the existence check and the overwrite
\* confirmation come first, the template is resolved after them, then the
\* materializer writes, then the installer asks and installs only after a
\* successful materialization, and the next steps are printed last.
C13_StagesInOrder ==
    /\ InOrder(Stage)
    /\ (Staged(2) \/ template /= <<>>) =>
           pc \notin {"init", "promptName", "createProject", "promptOverwrite"}
    /\ LaterStages

\* an overwrite was confirmed, a template chosen at the prompt, the project
\* written and installed, and the next steps printed
C13_Witness ==
    /\ E("answer", "overwrite", "yes") \in Range(log)
    /\ Logged("answer", "selectedTemplate")
    /\ E("child", "exit", "success") \in Range(log)
    /\ log[Len(log)].what = "next-steps"

\* a step of the registry that installs the dependencies
IsInstallStep(step) == \E k \in DOMAIN step : step[k] \in {" install", "bun install"}

\* a step as it is printed for this run
Printed(step) ==
    replace(replace(step, "<PROJECT_NAME>", projectName),
            "<PACKAGE_MANAGER>", <<detectPackageManager(env)>>)

PrintedAll(steps) == [i \in DOMAIN steps |-> Printed(steps[i])]

\* C14: the printed next steps are the template's steps in registry order with
\* <PROJECT_NAME> and <PACKAGE_MANAGER> replaced; when the install prompt was
\* answered yes the list is the template's steps without the
\* dependency-install step and starts with the cd step, and when the install
\* was declined or cancelled it is every step of the template.
C14_InstalledOmitsInstallStep ==
    Logged("print", "next-steps") =>
        LET steps == template[1].steps
        IN  IF installDeps
            THEN /\ nextSteps = PrintedAll(SelectSeq(steps, LAMBDA s : ~IsInstallStep(s)))
                 /\ nextSteps[1] = <<"cd ">> \o projectName
            ELSE nextSteps = PrintedAll(steps)

====
